---- MODULE Spec2Model ----
(***************************************************************************)
(* A model of the two documentation-build scripts of the-engineers-playbook *)
(*   epub_converter_pandoc.py : PandocEPUBConverter (anchor derivation,     *)
(*                              link rewriting, two-pass staging, pandoc)   *)
(*   extract_headings.py      : the heading splitter                        *)
(*                                                                          *)
(* Python strings are modelled as sequences of one-character strings, so    *)
(* that the regular expressions of the source are computed character by     *)
(* character.  Environment assumptions of the model: every entry of the     *)
(* tutorials directory that the scripts look at is a directory, every .md   *)
(* entry of a unit is a readable regular file, and the iteration order of   *)
(* a directory does not change during one run.                              *)
(***************************************************************************)
EXTENDS Integers, Sequences, FiniteSets, TLC

VARIABLES
  pc,                 \* position of the running script
  \* ---- PandocEPUBConverter and its environment
  probe,              \* outcome of `pandoc --version`
  staging,            \* temp_epub_pandoc: NoDir, or file name -> content
  title_file,         \* whether <base_dir>/title.txt exists
  rootReadme,         \* content of <base_dir>/README.md, or Absent
  diskUnits,          \* unit directories, in tutorials_dir.iterdir() order
  unitFiles,          \* unit -> its .md files, in iterdir() order
  tutorial_order,     \* the local of collect_and_preprocess_markdown_files
  tutorial_to_anchor, \* self.tutorial_to_anchor
  file_to_anchor,     \* self.file_to_anchor
  processed_files,    \* the list collect_and_preprocess_markdown_files builds
  visited,            \* history: units whose pass-2 loop body ran, in order
  ti,                 \* index of the pass-2 loop in tutorial_order
  cmd,                \* argument lists pandoc was run with on content
  returncode,         \* outcome of the content invocation
  result,             \* what convert() returned
  exit_code,          \* exit status of main()
  io,                 \* history: kinds of file I/O performed by convert()
  \* ---- create_pandoc_heading_id applied twice
  text, heading_id, heading_id2,
  \* ---- preprocess_markdown_content on its own
  content, file_path, processed_content,
  \* ---- extract_headings.py
  lines, ideas, created

asmVars == <<probe, staging, title_file, rootReadme, diskUnits, unitFiles,
             tutorial_order, processed_files, visited, ti, cmd,
             returncode, result, exit_code, io>>
mapVars == <<tutorial_to_anchor, file_to_anchor>>
anchorVars == <<text, heading_id, heading_id2>>
rewriteVars == <<content, file_path, processed_content>>
splitVars == <<lines, ideas, created>>
vars == <<pc, asmVars, mapVars, anchorVars, rewriteVars, splitVars>>

(***************************************************************************)
(* Bounds of the model.                                                     *)
(***************************************************************************)
MaxLen == 4
MaxFrags == 3
MaxLines == 3
MaxUnits == 2
MaxDocs == 2

(***************************************************************************)
(* String literals of the source, and the names the model's file systems    *)
(* are drawn from.                                                          *)
(***************************************************************************)
tutorial_order_curated ==
  << <<"d","a","t","a","-","s","t","r","u","c","t","u","r","e","s","-","a","l","g","o","r","i","t","h","m","s","-","1","0","1">>,
     <<"s","y","s","t","e","m","-","d","e","s","i","g","n","-","1","0","1">>,
     <<"h","a","s","h","i","n","g","-","t","h","e","-","u","n","i","v","e","r","s","a","l","-","f","i","l","i","n","g","-","s","y","s","t","e","m">>,
     <<"s","o","r","t","i","n","g","-","c","r","e","a","t","i","n","g","-","o","r","d","e","r","-","f","r","o","m","-","c","h","a","o","s">>,
     <<"h","e","a","p","-","d","a","t","a","-","s","t","r","u","c","t","u","r","e","s","-","t","h","e","-","p","r","i","o","r","i","t","y","-","e","x","p","e","r","t">>,
     <<"t","r","i","e","-","s","t","r","u","c","t","u","r","e","s","-","t","h","e","-","a","u","t","o","c","o","m","p","l","e","t","e","-","e","x","p","e","r","t">>,
     <<"b","-","t","r","e","e","s">>,
     <<"b","l","o","o","m","-","f","i","l","t","e","r","s">>,
     <<"s","k","i","p","-","l","i","s","t","s","-","t","h","e","-","p","r","o","b","a","b","i","l","i","s","t","i","c","-","s","e","a","r","c","h","-","t","r","e","e">>,
     <<"u","n","i","o","n","-","f","i","n","d","-","t","h","e","-","s","o","c","i","a","l","-","n","e","t","w","o","r","k","-","a","n","a","l","y","z","e","r">>,
     <<"f","e","n","w","i","c","k","-","t","r","e","e","s","-","t","h","e","-","e","f","f","i","c","i","e","n","t","-","s","u","m","m","a","t","i","o","n","-","m","a","c","h","i","n","e">>,
     <<"s","e","g","m","e","n","t","-","t","r","e","e","s","-","t","h","e","-","r","a","n","g","e","-","q","u","e","r","y","-","s","p","e","c","i","a","l","i","s","t">>,
     <<"a","d","a","p","t","i","v","e","-","d","a","t","a","-","s","t","r","u","c","t","u","r","e","s">>,
     <<"r","o","p","e","-","d","a","t","a","-","s","t","r","u","c","t","u","r","e","s","-","t","h","e","-","s","t","r","i","n","g","-","s","p","l","i","c","e","r">>,
     <<"r","a","d","i","x","-","t","r","e","e","s","-","t","h","e","-","c","o","m","p","r","e","s","s","e","d","-","p","r","e","f","i","x","-","t","r","e","e">>,
     <<"s","u","f","f","i","x","-","a","r","r","a","y","s","-","t","h","e","-","s","t","r","i","n","g","-","s","e","a","r","c","h","-","s","p","e","c","i","a","l","i","s","t">>,
     <<"m","e","r","k","l","e","-","t","r","e","e","s","-","t","h","e","-","f","i","n","g","e","r","p","r","i","n","t","-","o","f","-","d","a","t","a">>,
     <<"c","o","p","y","-","o","n","-","w","r","i","t","e">>,
     <<"d","e","l","t","a","-","c","o","m","p","r","e","s","s","i","o","n">>,
     <<"l","o","c","k","l","e","s","s","-","d","a","t","a","-","s","t","r","u","c","t","u","r","e","s","-","c","o","n","c","u","r","r","e","n","c","y","-","w","i","t","h","o","u","t","-","w","a","i","t","i","n","g">>,
     <<"c","a","c","h","i","n","g">>,
     <<"b","a","t","c","h","i","n","g">>,
     <<"c","o","m","p","r","e","s","s","i","o","n">>,
     <<"c","o","l","u","m","n","a","r","-","s","t","o","r","a","g","e">>,
     <<"i","n","d","e","x","i","n","g","-","t","h","e","-","u","l","t","i","m","a","t","e","-","t","a","b","l","e","-","o","f","-","c","o","n","t","e","n","t","s">>,
     <<"i","n","v","e","r","t","e","d","-","i","n","d","e","x","e","s","-","t","h","e","-","h","e","a","r","t","-","o","f","-","s","e","a","r","c","h","-","e","n","g","i","n","e","s">>,
     <<"r","i","n","g","-","b","u","f","f","e","r","s","-","t","h","e","-","c","i","r","c","u","l","a","r","-","c","o","n","v","e","y","o","r","-","b","e","l","t">>,
     <<"l","s","m","-","t","r","e","e","s","-","m","a","k","i","n","g","-","w","r","i","t","e","s","-","f","a","s","t","-","a","g","a","i","n">>,
     <<"p","a","r","t","i","t","i","o","n","i","n","g","-","t","h","e","-","a","r","t","-","o","f","-","s","l","i","c","i","n","g","-","d","a","t","a">>,
     <<"s","h","a","r","d","i","n","g","-","s","l","i","c","i","n","g","-","t","h","e","-","m","o","n","o","l","i","t","h">>,
     <<"s","p","a","t","i","a","l","-","i","n","d","e","x","i","n","g","-","f","i","n","d","i","n","g","-","y","o","u","r","-","p","l","a","c","e","-","i","n","-","t","h","e","-","w","o","r","l","d">>,
     <<"t","i","m","e","-","s","e","r","i","e","s","-","d","a","t","a","b","a","s","e","s","-","t","h","e","-","p","u","l","s","e","-","o","f","-","d","a","t","a">>,
     <<"c","o","n","s","i","s","t","e","n","t","-","h","a","s","h","i","n","g">>,
     <<"a","p","p","e","n","d","-","o","n","l","y","-","l","o","g","s">>,
     <<"c","r","d","t","s","-","a","g","r","e","e","i","n","g","-","w","i","t","h","o","u","t","-","a","s","k","i","n","g">>,
     <<"e","v","e","n","t","-","s","o","u","r","c","i","n","g">>,
     <<"i","n","-","m","e","m","o","r","y","-","s","t","o","r","a","g","e","-","t","h","e","-","n","e","e","d","-","f","o","r","-","s","p","e","e","d">>,
     <<"m","a","t","e","r","i","a","l","i","z","e","d","-","v","i","e","w","s","-","t","h","e","-","p","r","e","-","c","a","l","c","u","l","a","t","e","d","-","a","n","s","w","e","r">>,
     <<"p","r","o","b","a","b","i","l","i","s","t","i","c","-","d","a","t","a","-","s","t","r","u","c","t","u","r","e","s","-","g","o","o","d","-","e","n","o","u","g","h","-","i","s","-","p","e","r","f","e","c","t">>,
     <<"r","e","p","l","i","c","a","t","i","o","n","-","d","o","n","t","-","p","u","t","-","a","l","l","-","y","o","u","r","-","e","g","g","s","-","i","n","-","o","n","e","-","b","a","s","k","e","t">>,
     <<"w","r","i","t","e","-","a","h","e","a","d","-","l","o","g","g","i","n","g","-","w","a","l","-","d","u","r","a","b","i","l","i","t","y","-","w","i","t","h","o","u","t","-","d","e","l","a","y">> >>
file_order_curated ==
  << <<"0","1","-","c","o","n","c","e","p","t","s","-","0","1","-","t","h","e","-","c","o","r","e","-","p","r","o","b","l","e","m",".","m","d">>,
     <<"0","1","-","c","o","n","c","e","p","t","s","-","0","2","-","t","h","e","-","g","u","i","d","i","n","g","-","p","h","i","l","o","s","o","p","h","y",".","m","d">>,
     <<"0","1","-","c","o","n","c","e","p","t","s","-","0","3","-","k","e","y","-","a","b","s","t","r","a","c","t","i","o","n","s",".","m","d">>,
     <<"0","2","-","g","u","i","d","e","s","-","0","1","-","g","e","t","t","i","n","g","-","s","t","a","r","t","e","d",".","m","d">>,
     <<"0","2","-","g","u","i","d","e","s","-","0","2","-","e","s","s","e","n","t","i","a","l","-","p","a","t","t","e","r","n","s",".","m","d">>,
     <<"0","3","-","d","e","e","p","-","d","i","v","e","-","0","1","-","c","o","m","p","l","e","x","i","t","y","-","a","n","a","l","y","s","i","s",".","m","d">>,
     <<"0","3","-","d","e","e","p","-","d","i","v","e","-","0","2","-","d","a","t","a","-","s","t","r","u","c","t","u","r","e","-","d","e","s","i","g","n",".","m","d">>,
     <<"0","4","-","p","y","t","h","o","n","-","i","m","p","l","e","m","e","n","t","a","t","i","o","n",".","m","d">>,
     <<"0","5","-","r","u","s","t","-","i","m","p","l","e","m","e","n","t","a","t","i","o","n",".","m","d">>,
     <<"0","6","-","g","o","-","i","m","p","l","e","m","e","n","t","a","t","i","o","n",".","m","d">>,
     <<"0","7","-","c","p","p","-","i","m","p","l","e","m","e","n","t","a","t","i","o","n",".","m","d">>,
     <<"0","4","-","r","u","s","t","-","i","m","p","l","e","m","e","n","t","a","t","i","o","n",".","m","d">>,
     <<"0","4","-","s","q","l","-","e","x","a","m","p","l","e","s",".","m","d">> >>
s_tutorials_slash == <<"t","u","t","o","r","i","a","l","s","/">>
s_tutorials == <<"t","u","t","o","r","i","a","l","s">>
s_README_md == <<"R","E","A","D","M","E",".","m","d">>
s_dot_md == <<".","m","d">>
s_temp_dir == <<"t","e","m","p","_","e","p","u","b","_","p","a","n","d","o","c">>
s_title_txt == <<"t","i","t","l","e",".","t","x","t">>
u_caching == <<"c","a","c","h","i","n","g">>
u_batching == <<"b","a","t","c","h","i","n","g">>
u_caching_x == <<"c","a","c","h","i","n","g","-","x">>
u_zeta == <<"z","e","t","a">>
f_core_problem == <<"0","1","-","c","o","n","c","e","p","t","s","-","0","1","-","t","h","e","-","c","o","r","e","-","p","r","o","b","l","e","m",".","m","d">>
f_x_README == <<"x","-","R","E","A","D","M","E",".","m","d">>
f_notes == <<"n","o","t","e","s",".","m","d">>

None == "None"
EmptyMap == [k \in {} |-> <<>>]
\* an optional value: <<>> when absent, <<v>> when present
Absent == <<>>
Present(v) == <<v>>
\* a directory that may not exist, with its files (path -> content)
NoDir == [exists |-> FALSE, files |-> EmptyMap]
EmptyDir == [exists |-> TRUE, files |-> EmptyMap]

(***************************************************************************)
(* Characters: str.lower(), and the classes \w and \s of module re, on the  *)
(* ASCII characters the model draws its strings from.                       *)
(***************************************************************************)
UpperCase == <<"A","B","C","D","E","F","G","H","I","J","K","L","M",
               "N","O","P","Q","R","S","T","U","V","W","X","Y","Z">>
LowerCase == <<"a","b","c","d","e","f","g","h","i","j","k","l","m",
               "n","o","p","q","r","s","t","u","v","w","x","y","z">>
Digits == {"0","1","2","3","4","5","6","7","8","9"}

Range(s) == {s[i] : i \in DOMAIN s}

LowerChar(c) ==
  IF \E i \in DOMAIN UpperCase : UpperCase[i] = c
  THEN LowerCase[CHOOSE i \in DOMAIN UpperCase : UpperCase[i] = c]
  ELSE c

IsWordChar(c) == c \in Range(UpperCase) \cup Range(LowerCase) \cup Digits \cup {"_"}
IsSpaceChar(c) == c \in {" ", "\t", "\n", "\r"}

\* str.lower()
Lower(s) == [i \in DOMAIN s |-> LowerChar(s[i])]

\* s[i:] and s[i:j] with 1-based inclusive positions
From(s, i) == SubSeq(s, i, Len(s))
StartsWith(s, p) == Len(s) >= Len(p) /\ SubSeq(s, 1, Len(p)) = p
StartsAt(s, i, p) == i + Len(p) - 1 <= Len(s) /\ SubSeq(s, i, i + Len(p) - 1) = p
EndsWith(s, p) == Len(s) >= Len(p) /\ SubSeq(s, Len(s) - Len(p) + 1, Len(s)) = p
\* `p in s`
Contains(s, p) == \E i \in 1..(Len(s) + 1) : StartsAt(s, i, p)

\* str.replace(old, '') : every non-overlapping occurrence, left to right
RECURSIVE RemoveAll(_, _)
RemoveAll(s, old) ==
  IF s = <<>> THEN <<>>
  ELSE IF StartsWith(s, old) THEN RemoveAll(From(s, Len(old) + 1), old)
  ELSE <<s[1]>> \o RemoveAll(Tail(s), old)

\* "".join(parts)
RECURSIVE Concat(_)
Concat(parts) == IF parts = <<>> THEN <<>> ELSE Head(parts) \o Concat(Tail(parts))

(***************************************************************************)
(* create_pandoc_heading_id, one operator per statement.                    *)
(***************************************************************************)
\* re.sub(r'[^\w\s\-.:]+', '', text)
KeptChar(c) == IsWordChar(c) \/ IsSpaceChar(c) \/ c \in {"-", ".", ":"}
RemoveDisallowed(s) == SelectSeq(s, KeptChar)

\* re.sub(r'[\s:]+', '-', text)
IsSpaceOrColon(c) == IsSpaceChar(c) \/ c = ":"
RECURSIVE HyphenateRuns(_, _)
HyphenateRuns(s, i) ==
  IF i > Len(s) THEN <<>>
  ELSE IF IsSpaceOrColon(s[i])
       THEN (IF i > 1 /\ IsSpaceOrColon(s[i - 1]) THEN <<>> ELSE <<"-">>)
            \o HyphenateRuns(s, i + 1)
       ELSE <<s[i]>> \o HyphenateRuns(s, i + 1)

\* re.sub(r'-+', '-', text)
RECURSIVE CollapseHyphens(_, _)
CollapseHyphens(s, i) ==
  IF i > Len(s) THEN <<>>
  ELSE IF s[i] = "-" /\ i > 1 /\ s[i - 1] = "-" THEN CollapseHyphens(s, i + 1)
  ELSE <<s[i]>> \o CollapseHyphens(s, i + 1)

\* text.strip('-')
RECURSIVE LStripHyphens(_)
LStripHyphens(s) ==
  IF s # <<>> /\ s[1] = "-" THEN LStripHyphens(Tail(s)) ELSE s
RECURSIVE RStripHyphens(_)
RStripHyphens(s) ==
  IF s # <<>> /\ s[Len(s)] = "-" THEN RStripHyphens(SubSeq(s, 1, Len(s) - 1)) ELSE s
StripHyphens(s) == RStripHyphens(LStripHyphens(s))

\* A variant that removes the disallowed characters last, after the hyphens
\* were collapsed and trimmed.
create_pandoc_heading_id_reordered(t) ==
  RemoveDisallowed(StripHyphens(CollapseHyphens(HyphenateRuns(Lower(t), 1), 1)))

create_pandoc_heading_id(t) ==
  StripHyphens(CollapseHyphens(HyphenateRuns(RemoveDisallowed(Lower(t)), 1), 1))

(***************************************************************************)
(* pathlib: a path is its str(); `/` joins and drops empty and "."          *)
(* components, an absolute right operand replaces the left one.             *)
(***************************************************************************)
FirstIndex(s, from, ch) ==
  IF \E k \in from..Len(s) : s[k] = ch
  THEN CHOOSE k \in from..Len(s) : s[k] = ch /\ \A l \in from..(k - 1) : s[l] # ch
  ELSE 0

RECURSIVE SplitOn(_, _)
SplitOn(s, ch) ==
  LET k == FirstIndex(s, 1, ch)
  IN IF k = 0 THEN <<s>>
     ELSE <<SubSeq(s, 1, k - 1)>> \o SplitOn(From(s, k + 1), ch)

RECURSIVE JoinWith(_, _)
JoinWith(parts, ch) ==
  IF parts = <<>> THEN <<>>
  ELSE IF Len(parts) = 1 THEN parts[1]
  ELSE parts[1] \o <<ch>> \o JoinWith(Tail(parts), ch)

IsAbsolute(p) == p # <<>> /\ p[1] = "/"
PathParts(p) ==
  LET Real(c) == c # <<>> /\ c # <<".">>
  IN SelectSeq(SplitOn(p, "/"), Real)
PathStr(abs, parts) ==
  IF abs THEN <<"/">> \o JoinWith(parts, "/")
  ELSE IF parts = <<>> THEN <<".">> ELSE JoinWith(parts, "/")

\* Path(p) / q
PathJoin(p, q) ==
  IF IsAbsolute(q) THEN PathStr(TRUE, PathParts(q))
  ELSE PathStr(IsAbsolute(p), PathParts(p) \o PathParts(q))

\* Path(p).parent
Parent(p) ==
  LET parts == PathParts(p)
  IN IF parts = <<>> THEN PathStr(IsAbsolute(p), parts)
     ELSE PathStr(IsAbsolute(p), SubSeq(parts, 1, Len(parts) - 1))

\* __init__ with the default --input "."
base_dir == <<".">>
tutorials_dir == PathJoin(base_dir, s_tutorials)
temp_dir == s_temp_dir

(***************************************************************************)
(* preprocess_markdown_content                                              *)
(***************************************************************************)
\* the callback of the first re.sub: group0 is match.group(0), name group(1)
replace_tutorial_link(group0, name, t2a) ==
  IF name \in DOMAIN t2a THEN <<"#">> \o t2a[name] ELSE group0

\* [^/\)]
IsNameChar(c) == c # "/" /\ c # ")"
\* last position of the maximal run of [^/\)] that starts at a
NameRunEnd(c, a) ==
  CHOOSE j \in a..Len(c) :
    /\ \A k \in a..j : IsNameChar(c[k])
    /\ (j = Len(c) \/ ~IsNameChar(c[j + 1]))

\* re.sub(r'tutorials/([^/\)]+)/?', replace_tutorial_link, content), from i
RECURSIVE ReplaceTutorialLinks(_, _, _)
ReplaceTutorialLinks(c, i, t2a) ==
  IF i > Len(c) THEN <<>>
  ELSE LET a == i + Len(s_tutorials_slash)
       IN IF StartsAt(c, i, s_tutorials_slash) /\ a <= Len(c) /\ IsNameChar(c[a])
          THEN LET j == NameRunEnd(c, a)
                   e == IF j < Len(c) /\ c[j + 1] = "/" THEN j + 1 ELSE j
               IN replace_tutorial_link(SubSeq(c, i, e), SubSeq(c, a, j), t2a)
                  \o ReplaceTutorialLinks(c, e + 1, t2a)
          ELSE <<c[i]>> \o ReplaceTutorialLinks(c, i + 1, t2a)

\* A variant of the callback that looks the bare file name up, without the
\* directory of the source file.
replace_md_link_bare_name(link_text, md_filename, fp, f2a) ==
  LET anchor == IF md_filename \in DOMAIN f2a THEN f2a[md_filename]
                ELSE create_pandoc_heading_id(RemoveAll(md_filename, s_dot_md))
  IN <<"[">> \o link_text \o <<"]", "(", "#">> \o anchor \o <<")">>

\* the callback of the second re.sub
replace_md_link(link_text, md_filename, fp, f2a) ==
  LET full_md_path == PathJoin(Parent(fp), md_filename)
      anchor == IF full_md_path \in DOMAIN f2a THEN f2a[full_md_path]
                ELSE create_pandoc_heading_id(RemoveAll(md_filename, s_dot_md))
  IN <<"[">> \o link_text \o <<"]", "(", "#">> \o anchor \o <<")">>

\* where a match of r'\[([^\]]+)\]\(([^)]+\.md)\)' that starts at i ends
\* (its closing parenthesis), 0 when there is none; k is the closing bracket
MdLinkBracket(c, i) == FirstIndex(c, i + 1, "]")
MdLinkEnd(c, i) ==
  IF c[i] # "[" THEN 0
  ELSE LET k == MdLinkBracket(c, i)
       IN IF k < i + 2 \/ k + 1 > Len(c) \/ c[k + 1] # "(" THEN 0
          ELSE LET m == FirstIndex(c, k + 2, ")")
               IN IF m >= k + 3 + Len(s_dot_md) /\ SubSeq(c, m - Len(s_dot_md), m - 1) = s_dot_md
                  THEN m ELSE 0

\* re.sub(r'\[([^\]]+)\]\(([^)]+\.md)\)', replace_md_link, content), from i
RECURSIVE ReplaceMdLinks(_, _, _, _)
ReplaceMdLinks(c, i, fp, f2a) ==
  IF i > Len(c) THEN <<>>
  ELSE LET m == MdLinkEnd(c, i)
       IN IF m = 0 THEN <<c[i]>> \o ReplaceMdLinks(c, i + 1, fp, f2a)
          ELSE LET k == MdLinkBracket(c, i)
               IN replace_md_link(SubSeq(c, i + 1, k - 1), SubSeq(c, k + 2, m - 1), fp, f2a)
                  \o ReplaceMdLinks(c, m + 1, fp, f2a)

preprocess_markdown_content(c, fp, t2a, f2a) ==
  LET c1 == ReplaceTutorialLinks(c, 1, t2a)
  IN IF Contains(fp, s_tutorials_slash) THEN ReplaceMdLinks(c1, 1, fp, f2a) ELSE c1

(***************************************************************************)
(* The values of the variables a specification does not use.                *)
(***************************************************************************)
AsmIdle ==
  /\ probe = None /\ staging = NoDir /\ title_file = FALSE
  /\ rootReadme = Absent /\ diskUnits = <<>> /\ unitFiles = EmptyMap
  /\ tutorial_order = <<>> /\ processed_files = <<>>
  /\ visited = <<>> /\ ti = 0 /\ cmd = <<>> /\ returncode = None
  /\ result = None /\ exit_code = -1 /\ io = {}
MapIdle == tutorial_to_anchor = EmptyMap /\ file_to_anchor = EmptyMap
AnchorIdle == text = <<>> /\ heading_id = <<>> /\ heading_id2 = <<>>
RewriteIdle == content = <<>> /\ file_path = <<>> /\ processed_content = <<>>
SplitIdle == lines = Absent /\ ideas = NoDir /\ created = <<>>

\* all sequences over S of length at most n
SeqsUpTo(S, n) == UNION {[1..k -> S] : k \in 0..n}

(***************************************************************************)
(* SpecAnchor: create_pandoc_heading_id applied to a heading text, then to  *)
(* its own result.                                                          *)
(***************************************************************************)
AnchorAlphabet == {"A", "b", "1", "_", "-", ".", ":", " ", "!"}

InitAnchor ==
  /\ pc = "derive"
  /\ text \in SeqsUpTo(AnchorAlphabet, MaxLen)
  /\ heading_id = <<>> /\ heading_id2 = <<>>
  /\ AsmIdle /\ MapIdle /\ RewriteIdle /\ SplitIdle

Derive ==
  /\ pc = "derive"
  /\ heading_id' = create_pandoc_heading_id(text)
  /\ pc' = "derive_again"
  /\ UNCHANGED <<text, heading_id2, asmVars, mapVars, rewriteVars, splitVars>>

DeriveAgain ==
  /\ pc = "derive_again"
  /\ heading_id2' = create_pandoc_heading_id(heading_id)
  /\ pc' = "derived"
  /\ UNCHANGED <<text, heading_id, asmVars, mapVars, rewriteVars, splitVars>>

NextAnchor == Derive \/ DeriveAgain
SpecAnchor == InitAnchor /\ [][NextAnchor]_vars

\* C10: anchor derivation is idempotent (deriving from a derived anchor gives
\* the same string), and the empty text yields the empty string.
C10_Idempotent ==
  /\ pc = "derived" => heading_id2 = heading_id
  /\ (pc # "derive" /\ text = <<>>) => heading_id = <<>>

\* a text whose anchor differs from it in every step of the derivation
\* (case, a removed character, a run turned into a hyphen, a trimmed edge)
\* has been derived twice
C10_Witness ==
  /\ pc = "derived"
  /\ text = <<" ", "A", "!", ":">>
  /\ heading_id = <<"a">>

(***************************************************************************)
(* SpecRewrite: preprocess_markdown_content on a document made of a few     *)
(* fragments, for a source path and the two anchor maps.                    *)
(***************************************************************************)
frag_key_ref == <<"(","t","u","t","o","r","i","a","l","s","/","c","a","c","h","i","n","g","/",")">>
frag_other_ref == <<"t","u","t","o","r","i","a","l","s","/","z","z","/">>
frag_open_ref == <<"t","u","t","o","r","i","a","l","s","/","z","z"," ">>
frag_link_notes == <<"[","t","]","(","n","o","t","e","s",".","m","d",")">>
frag_link_other == <<"[","t","]","(","o","t","h","e","r",".","m","d",")">>
frag_link_deep == <<"[","t","]","(","t","u","t","o","r","i","a","l","s","/","z","z","/","b",".","m","d",")">>
frag_text == <<"s","e","e"," ">>
path_root_readme == <<"R","E","A","D","M","E",".","m","d">>
path_unit_readme == <<"t","u","t","o","r","i","a","l","s","/","c","a","c","h","i","n","g","/","R","E","A","D","M","E",".","m","d">>
path_unit_notes == <<"t","u","t","o","r","i","a","l","s","/","c","a","c","h","i","n","g","/","n","o","t","e","s",".","m","d">>
anchor_caching == <<"c","a","c","h","i","n","g","-","i","t">>
anchor_notes == <<"t","h","e","-","n","o","t","e","s">>
ref_caching == <<"t","u","t","o","r","i","a","l","s","/","c","a","c","h","i","n","g","/">>
ref_zz == <<"t","u","t","o","r","i","a","l","s","/","z","z","/">>
link_open == <<"[","t","]","(">>
link_open_anchor == <<"[","t","]","(","#">>
n_notes == <<"n","o","t","e","s">>
n_other == <<"o","t","h","e","r">>

Fragments == {frag_key_ref, frag_other_ref, frag_open_ref, frag_link_notes,
              frag_link_other, frag_link_deep, frag_text}
SourcePaths == {path_root_readme, path_unit_readme, path_unit_notes}
UnitMaps == {EmptyMap, u_caching :> anchor_caching}
FileMaps == {EmptyMap, path_unit_notes :> anchor_notes}

InitRewrite ==
  /\ pc = "rewrite"
  /\ \E fs \in SeqsUpTo(Fragments, MaxFrags) : content = Concat(fs)
  /\ file_path \in SourcePaths
  /\ tutorial_to_anchor \in UnitMaps
  /\ file_to_anchor \in FileMaps
  /\ processed_content = <<>>
  /\ AsmIdle /\ AnchorIdle /\ SplitIdle

Preprocess ==
  /\ pc = "rewrite"
  /\ processed_content' =
       preprocess_markdown_content(content, file_path, tutorial_to_anchor, file_to_anchor)
  /\ pc' = "rewritten"
  /\ UNCHANGED <<content, file_path, asmVars, mapVars, anchorVars, splitVars>>

NextRewrite == Preprocess
SpecRewrite == InitRewrite /\ [][NextRewrite]_vars

\* number of places where p occurs in s
Count(s, p) == Cardinality({i \in 1..Len(s) : StartsAt(s, i, p)})

\* the sibling link [t](<n>.md) and what it is to become
SiblingLink(n) == link_open \o n \o s_dot_md \o <<")">>
AnchorLink(anchor) == link_open_anchor \o anchor \o <<")">>
SiblingNames == {n_notes, n_other}
\* the directory part of the source path, as text
SourceDir(fp) ==
  IF \E i \in DOMAIN fp : fp[i] = "/"
  THEN SubSeq(fp, 1, (CHOOSE i \in DOMAIN fp : fp[i] = "/" /\ \A j \in (i + 1)..Len(fp) : fp[j] # "/") - 1)
  ELSE <<".">>
\* the anchor the specification gives the link to <n>.md
ExpectedAnchor(n) ==
  LET target == SourceDir(file_path) \o <<"/">> \o n \o s_dot_md
  IN IF target \in DOMAIN file_to_anchor THEN file_to_anchor[target]
     ELSE create_pandoc_heading_id(n)
SiblingLinksRewritten ==
  \A n \in SiblingNames :
    /\ Count(processed_content, SiblingLink(n)) = 0
    /\ Count(processed_content, AnchorLink(ExpectedAnchor(n))) >= Count(content, SiblingLink(n))

\* C7, as stated: every directory-style reference tutorials/<name>/ whose
\* name is a key of the Unit-to-anchor map is replaced (none is left in the
\* result), every such reference whose name is not a key is still there, and
\* content without references or links is returned as it was.
C7_DirectoryReferences ==
  pc = "rewritten" =>
    /\ \A k \in DOMAIN tutorial_to_anchor :
         Count(processed_content, s_tutorials_slash \o k \o <<"/">>) = 0
    /\ \A r \in {ref_zz} \cup (IF u_caching \in DOMAIN tutorial_to_anchor THEN {} ELSE {ref_caching}) :
         Count(processed_content, r) = Count(content, r)
    /\ (Count(content, s_tutorials_slash) = 0 /\ Count(content, <<"]", "(">>) = 0)
         => processed_content = content

\* C8, as stated: for any source path, the corpus root document included,
\* every link [text](<file>.md) to a sibling file is rewritten to
\* [text](#<anchor>), the anchor being the Document-to-anchor entry of the
\* resolved path or else the anchor derived from the file name.
C8_EveryPath == pc = "rewritten" => SiblingLinksRewritten

\* C8, amended: the sibling links are rewritten when the source path contains
\* "tutorials/", and are left as they are when it does not (the corpus root
\* README under the default input directory).
C8_UnitPaths ==
  pc = "rewritten" =>
    IF Contains(file_path, s_tutorials_slash) THEN SiblingLinksRewritten
    ELSE \A n \in SiblingNames :
           Count(processed_content, SiblingLink(n)) = Count(content, SiblingLink(n))

\* a unit document with a link to an indexed sibling and a link to a sibling
\* that is not indexed has been rewritten
C8_Witness ==
  /\ pc = "rewritten"
  /\ file_path = path_unit_readme
  /\ DOMAIN file_to_anchor # {}
  /\ Count(content, SiblingLink(n_notes)) = 1
  /\ Count(content, SiblingLink(n_other)) = 1
  /\ Count(processed_content, AnchorLink(anchor_notes)) = 1
  /\ Count(processed_content, AnchorLink(n_other)) = 1

(***************************************************************************)
(* extract_headings.py                                                      *)
(***************************************************************************)
line_h2 == <<"#","#"," ","A"," ","b"," ","*","\n">>
line_h3 == <<"#","#","#"," ","S","u","b","\n">>
line_text == <<"t","e","x","t","\n">>
line_blank == <<"\n">>
line_spaces == <<" "," ","\n">>
line_h2_tight == <<"#","#","C","-","d","\n">>
s_h2 == <<"#","#">>
s_h3 == <<"#","#","#">>
s_h1_prefix == <<"#"," ">>

\* str.strip()
RECURSIVE LStrip(_)
LStrip(s) == IF s # <<>> /\ IsSpaceChar(s[1]) THEN LStrip(Tail(s)) ELSE s
RECURSIVE RStrip(_)
RStrip(s) ==
  IF s # <<>> /\ IsSpaceChar(s[Len(s)]) THEN RStrip(SubSeq(s, 1, Len(s) - 1)) ELSE s
Strip(s) == RStrip(LStrip(s))

\* the match of r'([^\w\s]+)$' : the trailing run of symbol characters
IsSymbolChar(c) == ~IsWordChar(c) /\ ~IsSpaceChar(c)
RECURSIVE TrailingSymbols(_)
TrailingSymbols(s) ==
  IF s # <<>> /\ IsSymbolChar(s[Len(s)])
  THEN TrailingSymbols(SubSeq(s, 1, Len(s) - 1)) \o <<s[Len(s)]>>
  ELSE <<>>

extract_title_and_emoji(heading_line) ==
  LET title == Strip(RemoveAll(heading_line, s_h2))
      emoji == TrailingSymbols(title)
      title_without_emoji == Strip(SubSeq(title, 1, Len(title) - Len(emoji)))
  IN [title |-> title, title_without_emoji |-> title_without_emoji, emoji |-> emoji]

\* re.sub(r'[-\s]+', '-', filename)
IsHyphenOrSpace(c) == c = "-" \/ IsSpaceChar(c)
RECURSIVE HyphenateSeparators(_, _)
HyphenateSeparators(s, i) ==
  IF i > Len(s) THEN <<>>
  ELSE IF IsHyphenOrSpace(s[i])
       THEN (IF i > 1 /\ IsHyphenOrSpace(s[i - 1]) THEN <<>> ELSE <<"-">>)
            \o HyphenateSeparators(s, i + 1)
       ELSE <<s[i]>> \o HyphenateSeparators(s, i + 1)

title_to_filename(title) ==
  LET Kept(c) == IsWordChar(c) \/ IsSpaceChar(c) \/ c = "-"
  IN StripHyphens(Lower(HyphenateSeparators(SelectSeq(title, Kept), 1))) \o s_dot_md

\* the while loop that drops trailing empty lines
RECURSIVE DropTrailingBlank(_)
DropTrailingBlank(content_lines) ==
  IF content_lines # <<>> /\ Strip(content_lines[Len(content_lines)]) = <<>>
  THEN DropTrailingBlank(SubSeq(content_lines, 1, Len(content_lines) - 1))
  ELSE content_lines

\* line.startswith('##')
IsHeadingLine(line) == StartsWith(line, s_h2)

extract_section_content(ls, start_index) ==
  LET stops == {i \in (start_index + 1)..Len(ls) : IsHeadingLine(ls[i])}
      end == IF stops = {} THEN Len(ls)
             ELSE (CHOOSE i \in stops : \A j \in stops : i <= j) - 1
  IN DropTrailingBlank(SubSeq(ls, start_index + 1, end))

\* what one iteration of main's loop writes for the heading at line i
SectionAt(ls, i) ==
  LET t == extract_title_and_emoji(ls[i])
      body == extract_section_content(ls, i)
  IN [start |-> i,
      filename |-> title_to_filename(t.title_without_emoji),
      title |-> t.title,
      body |-> body,
      written |-> s_h1_prefix \o t.title \o <<"\n", "\n">> \o Concat(body)]

\* the sections main writes, in the order of the loop
RECURSIVE SectionsFrom(_, _)
SectionsFrom(ls, i) ==
  IF i > Len(ls) THEN <<>>
  ELSE (IF IsHeadingLine(ls[i]) THEN <<SectionAt(ls, i)>> ELSE <<>>)
       \o SectionsFrom(ls, i + 1)

\* the files of a directory after the sections were written in order
RECURSIVE WriteSections(_, _)
WriteSections(files, secs) ==
  IF secs = <<>> THEN files
  ELSE WriteSections((secs[1].filename :> secs[1].written) @@ files, Tail(secs))

SplitLines == {line_h2, line_h3, line_text, line_blank, line_spaces, line_h2_tight}

InitSplit ==
  /\ pc = "split"
  /\ lines \in {Absent} \cup {Present(ls) : ls \in SeqsUpTo(SplitLines, MaxLines)}
  /\ ideas \in {NoDir, EmptyDir}
  /\ created = <<>>
  /\ AsmIdle /\ MapIdle /\ AnchorIdle /\ RewriteIdle

\* main() of extract_headings.py
SplitMain ==
  /\ pc = "split"
  /\ IF lines = Absent
     THEN UNCHANGED <<ideas, created>>
     ELSE LET secs == SectionsFrom(lines[1], 1)
          IN /\ created' = secs
             /\ ideas' = [exists |-> TRUE, files |-> WriteSections(ideas.files, secs)]
  /\ pc' = "split_done"
  /\ UNCHANGED <<lines, asmVars, mapVars, anchorVars, rewriteVars>>

NextSplit == SplitMain
SpecSplit == InitSplit /\ [][NextSplit]_vars

\* a line that begins with exactly the second-level marker
IsSecondLevel(line) == StartsWith(line, s_h2) /\ ~StartsWith(line, s_h3)
\* the body the specification gives the section that starts at line i
SecondLevelBody(ls, i) ==
  LET stops == {j \in (i + 1)..Len(ls) : IsSecondLevel(ls[j])}
      end == IF stops = {} THEN Len(ls)
             ELSE (CHOOSE j \in stops : \A k \in stops : j <= k) - 1
  IN DropTrailingBlank(SubSeq(ls, i + 1, end))

\* C9: a section starts only at a line beginning with exactly "##" (not "###"
\* or deeper), every such line starts one, and its body is every following
\* line up to the next second-level heading or the end of the file, trailing
\* blank lines trimmed: a deeper heading stays in the enclosing body and gets
\* no file of its own.
C9_SecondLevelOnly ==
  (pc = "split_done" /\ lines # Absent) =>
    LET ls == lines[1]
    IN /\ \A k \in DOMAIN created :
            /\ IsSecondLevel(ls[created[k].start])
            /\ created[k].body = SecondLevelBody(ls, created[k].start)
       /\ \A i \in DOMAIN ls :
            IsSecondLevel(ls[i]) => \E k \in DOMAIN created : created[k].start = i

(***************************************************************************)
(* PandocEPUBConverter: the file system it reads                            *)
(***************************************************************************)
doc_plain == <<"#"," ","T","\n">>
doc_links == <<"#"," ","A"," ","b","\n","(","t","u","t","o","r","i","a","l","s","/","c","a","c","h","i","n","g","/",")"," ","(","t","u","t","o","r","i","a","l","s","/","b","a","t","c","h","i","n","g","/",")"," ","[","t","]","(","n","o","t","e","s",".","m","d",")">>
doc_late == <<"x","\n","#"," ","B",":","c","\n">>
doc_bare == <<"#","n","o","n","e","\n","#","#"," ","s","\n">>
s_stale == <<"t","e","m","p","_","e","p","u","b","_","p","a","n","d","o","c","/","o","l","d",".","m","d">>

Exists(u) == u \in Range(diskUnits)
FileNamesOf(u) == [i \in DOMAIN unitFiles[u] |-> unitFiles[u][i].name]
HasFile(u, f) == \E i \in DOMAIN unitFiles[u] : unitFiles[u][i].name = f
ContentOf(u, f) ==
  unitFiles[u][CHOOSE i \in DOMAIN unitFiles[u] : unitFiles[u][i].name = f].content

UnitPath(u) == PathJoin(tutorials_dir, u)
DocPath(u, f) == PathJoin(UnitPath(u), f)
RootReadmePath == PathJoin(base_dir, s_README_md)
TitlePath == PathJoin(base_dir, s_title_txt)

(***************************************************************************)
(* check_pandoc, get_tutorial_order and pass 1                              *)
(***************************************************************************)
\* A variant that takes any completed probe for a success.
check_pandoc_any_status(p) == p # "notfound"

\* p is the outcome of subprocess.run(['pandoc', '--version'])
check_pandoc(p) == p = "0"

InSeq(x, s) == \E i \in DOMAIN s : s[i] = x

\* A variant that puts the units missing from the curated list in front.
get_tutorial_order_missing_first ==
  LET Missing(u) == ~InSeq(u, tutorial_order_curated)
  IN SelectSeq(diskUnits, Missing) \o tutorial_order_curated

get_tutorial_order ==
  LET Missing(u) == ~InSeq(u, tutorial_order_curated)
  IN tutorial_order_curated \o SelectSeq(diskUnits, Missing)

\* file_order of a unit, after "Add any other files not in the standard order"
file_order(u) ==
  LET Other(f) == f # s_README_md
      existing_files == SelectSeq(FileNamesOf(u), Other)
      Missing(f) == ~InSeq(f, file_order_curated)
  IN file_order_curated \o SelectSeq(existing_files, Missing)

\* re.search(r'^# (.+)$', content, re.MULTILINE)
IsHeading1(line) == StartsWith(line, s_h1_prefix) /\ Len(line) > Len(s_h1_prefix)
HasHeading(c) == \E i \in DOMAIN SplitOn(c, "\n") : IsHeading1(SplitOn(c, "\n")[i])
\* match.group(1) of the first match
HeadingTitle(c) ==
  LET ls == SplitOn(c, "\n")
      first == CHOOSE i \in DOMAIN ls :
                 IsHeading1(ls[i]) /\ \A j \in 1..(i - 1) : ~IsHeading1(ls[j])
  IN From(ls[first], Len(s_h1_prefix) + 1)

\* A variant whose fallback keeps the extension of the file name.
file_anchor_keeps_extension(filename, c) ==
  IF HasHeading(c) THEN create_pandoc_heading_id(HeadingTitle(c))
  ELSE create_pandoc_heading_id(filename)

\* the anchor pass 1 records for a file of a unit other than its README
file_anchor(filename, c) ==
  IF HasHeading(c) THEN create_pandoc_heading_id(HeadingTitle(c))
  ELSE create_pandoc_heading_id(RemoveAll(filename, s_dot_md))

\* "Process files to get their headings", over the names of file_order
RECURSIVE IndexFiles(_, _, _)
IndexFiles(u, names, f2a) ==
  IF names = <<>> THEN f2a
  ELSE LET f == Head(names)
       IN IndexFiles(u, Tail(names),
            IF HasFile(u, f) THEN (DocPath(u, f) :> file_anchor(f, ContentOf(u, f))) @@ f2a
            ELSE f2a)

\* the first pass over tutorial_order; m holds the two maps
RECURSIVE IndexUnits(_, _)
IndexUnits(order, m) ==
  IF order = <<>> THEN m
  ELSE LET u == Head(order)
       IN IF ~Exists(u) THEN IndexUnits(Tail(order), m)
          ELSE LET found == HasFile(u, s_README_md) /\ HasHeading(ContentOf(u, s_README_md))
                   anchor == create_pandoc_heading_id(HeadingTitle(ContentOf(u, s_README_md)))
                   t2a == IF found THEN (u :> anchor) @@ m.t2a ELSE m.t2a
                   f2a == IF found THEN (DocPath(u, s_README_md) :> anchor) @@ m.f2a ELSE m.f2a
               IN IndexUnits(Tail(order), [t2a |-> t2a, f2a |-> IndexFiles(u, file_order(u), f2a)])

(***************************************************************************)
(* pass 2                                                                   *)
(***************************************************************************)
\* f"{tutorial_name}-README.md" and f"{tutorial_name}-{filename}"
StagedName(u, filename) == u \o <<"-">> \o filename

\* the documents of a unit in the order pass 2 stages them
UnitEntries(u) ==
  LET Here(f) == HasFile(u, f)
      others == SelectSeq(file_order(u), Here)
      Entry(f) == [src |-> DocPath(u, f),
                   dst |-> PathJoin(temp_dir, StagedName(u, f)),
                   content |-> ContentOf(u, f)]
  IN (IF HasFile(u, s_README_md) THEN <<Entry(s_README_md)>> ELSE <<>>)
     \o [i \in DOMAIN others |-> Entry(others[i])]

\* open(processed_file, 'w') for each entry in turn
RECURSIVE WriteEntries(_, _)
WriteEntries(files, entries) ==
  IF entries = <<>> THEN files
  ELSE WriteEntries(
         (entries[1].dst :> preprocess_markdown_content(entries[1].content, entries[1].src,
                                                         tutorial_to_anchor, file_to_anchor))
           @@ files,
         Tail(entries))

\* the positions of tutorial_order after ti whose unit is on disk
UnitsAhead == {i \in (ti + 1)..Len(tutorial_order) : Exists(tutorial_order[i])}

\* A variant that cleans up whatever the invocation returned.
cleans_up_always(rc) == TRUE

\* whether convert() removes title.txt and the staging directory
cleans_up(rc) == rc = "0"

(***************************************************************************)
(* convert(), step by step; main() exits with the result of convert()       *)
(***************************************************************************)
others == <<mapVars, anchorVars, rewriteVars, splitVars>>

CheckPandoc ==
  /\ pc = "check"
  /\ \E p \in {"0", "nonzero", "notfound"} :
       /\ probe' = p
       /\ IF check_pandoc(p)
          THEN pc' = "reset" /\ UNCHANGED <<result, exit_code>>
          ELSE pc' = "done" /\ result' = "False" /\ exit_code' = 1
  /\ UNCHANGED <<staging, title_file, rootReadme, diskUnits, unitFiles, tutorial_order,
                 processed_files, visited, ti, cmd, returncode, io, others>>

ResetStaging ==
  /\ pc = "reset"
  /\ staging' = EmptyDir
  /\ io' = io \cup (IF staging.exists THEN {"rmtree"} ELSE {}) \cup {"mkdir"}
  /\ processed_files' = <<>>
  /\ pc' = "index"
  /\ UNCHANGED <<probe, title_file, rootReadme, diskUnits, unitFiles, tutorial_order,
                 visited, ti, cmd, returncode, result, exit_code, others>>

BuildIndex ==
  /\ pc = "index"
  /\ tutorial_order' = get_tutorial_order
  /\ LET m == IndexUnits(get_tutorial_order,
                         [t2a |-> tutorial_to_anchor, f2a |-> file_to_anchor])
     IN tutorial_to_anchor' = m.t2a /\ file_to_anchor' = m.f2a
  /\ io' = io \cup {"list"}
             \cup (IF \E u \in Range(diskUnits) : unitFiles[u] # <<>> THEN {"read"} ELSE {})
  /\ pc' = "root"
  /\ UNCHANGED <<probe, staging, title_file, rootReadme, diskUnits, unitFiles,
                 processed_files, visited, ti, cmd, returncode, result, exit_code,
                 anchorVars, rewriteVars, splitVars>>

StageRoot ==
  /\ pc = "root"
  /\ IF rootReadme = Absent
     THEN UNCHANGED <<staging, processed_files, io>>
     ELSE LET processed_file == PathJoin(temp_dir, s_README_md)
          IN /\ staging' = [staging EXCEPT !.files =
                   (processed_file :> preprocess_markdown_content(rootReadme[1], RootReadmePath,
                                        tutorial_to_anchor, file_to_anchor)) @@ @]
             /\ processed_files' = Append(processed_files, processed_file)
             /\ io' = io \cup {"read", "write"}
  /\ ti' = 0
  /\ pc' = "units"
  /\ UNCHANGED <<probe, title_file, rootReadme, diskUnits, unitFiles, tutorial_order,
                 visited, cmd, returncode, result, exit_code, others>>

\* one iteration of "Add tutorials in order" whose unit is on disk (the
\* iterations in between, of units that are not, do nothing)
StageUnit ==
  /\ pc = "units"
  /\ UnitsAhead # {}
  /\ LET n == CHOOSE i \in UnitsAhead : \A j \in UnitsAhead : i <= j
         u == tutorial_order[n]
         entries == UnitEntries(u)
     IN /\ staging' = [staging EXCEPT !.files = WriteEntries(@, entries)]
        /\ processed_files' = processed_files \o [i \in DOMAIN entries |-> entries[i].dst]
        /\ visited' = Append(visited, u)
        /\ io' = io \cup {"list"} \cup (IF entries # <<>> THEN {"read", "write"} ELSE {})
        /\ ti' = n
  /\ UNCHANGED <<pc, probe, title_file, rootReadme, diskUnits, unitFiles, tutorial_order,
                 cmd, returncode, result, exit_code, others>>

\* the loop is over: collect_and_preprocess_markdown_files returns
FinishUnits ==
  /\ pc = "units"
  /\ UnitsAhead = {}
  /\ ti' = Len(tutorial_order)
  /\ pc' = "title"
  /\ UNCHANGED <<probe, staging, title_file, rootReadme, diskUnits, unitFiles,
                 tutorial_order, processed_files, visited, cmd, returncode, result,
                 exit_code, io, others>>

CreateTitle ==
  /\ pc = "title"
  /\ title_file' = TRUE
  /\ io' = io \cup {"write"}
  /\ pc' = "pandoc"
  /\ UNCHANGED <<probe, staging, rootReadme, diskUnits, unitFiles, tutorial_order,
                 processed_files, visited, ti, cmd, returncode, result, exit_code, others>>

\* subprocess.run(cmd) and what follows it, to the exit of main()
RunPandoc ==
  /\ pc = "pandoc"
  /\ cmd' = Append(cmd, <<TitlePath>> \o processed_files)
  /\ \E rc \in {"0", "nonzero", "raised"} :
       /\ returncode' = rc
       /\ IF cleans_up(rc)
          THEN title_file' = FALSE /\ staging' = NoDir /\ io' = io \cup {"unlink", "rmtree"}
          ELSE UNCHANGED <<title_file, staging, io>>
       /\ IF rc = "0" THEN result' = "True" /\ exit_code' = 0
          ELSE result' = "False" /\ exit_code' = 1
  /\ pc' = "done"
  /\ UNCHANGED <<probe, rootReadme, diskUnits, unitFiles, tutorial_order,
                 processed_files, visited, ti, others>>

Next ==
  \/ CheckPandoc \/ ResetStaging \/ BuildIndex \/ StageRoot
  \/ StageUnit \/ FinishUnits \/ CreateTitle \/ RunPandoc

(***************************************************************************)
(* The file systems convert() starts from.                                  *)
(***************************************************************************)
UnitNames == {u_caching, u_batching, u_caching_x, u_zeta}
FileNames == {s_README_md, f_core_problem, f_x_README}
StaleDir == [exists |-> TRUE, files |-> s_stale :> doc_plain]

Injective(s) == \A i, j \in DOMAIN s : i # j => s[i] # s[j]

\* the .md files of unit u among docs (<<unit, name, content>>), in their order
FilesAmong(docs, u) ==
  LET Mine(d) == d[1] = u
      mine == SelectSeq(docs, Mine)
  IN [i \in DOMAIN mine |-> [name |-> mine[i][2], content |-> mine[i][3]]]

InitFrom(U, F, C, S) ==
  /\ pc = "check"
  /\ \E docs \in SeqsUpTo(U \X F \X C, MaxDocs), du \in SeqsUpTo(U, MaxUnits) :
       /\ Injective(du)
       /\ Injective([i \in DOMAIN docs |-> <<docs[i][1], docs[i][2]>>])
       /\ \A i \in DOMAIN docs : InSeq(docs[i][1], du)
       /\ diskUnits = du
       /\ unitFiles = [u \in Range(du) |-> FilesAmong(docs, u)]
  /\ rootReadme \in {Absent} \cup {Present(c) : c \in C}
  /\ staging \in S
  /\ probe = None /\ title_file = FALSE /\ tutorial_order = <<>>
  /\ processed_files = <<>> /\ visited = <<>> /\ ti = 0 /\ cmd = <<>>
  /\ returncode = None /\ result = None /\ exit_code = -1 /\ io = {}
  /\ MapIdle /\ AnchorIdle /\ RewriteIdle /\ SplitIdle

\* many names, one content: what the staged names and the order depend on
Init == InitFrom(UnitNames, FileNames, {doc_plain}, {NoDir, StaleDir})
Spec == Init /\ [][Next]_vars

\* few names, several contents: what the anchor maps depend on
InitIndex == InitFrom({u_caching, u_zeta}, {s_README_md, f_notes},
                      {doc_links, doc_late, doc_bare}, {NoDir})
SpecIndex == InitIndex /\ [][Next]_vars

(***************************************************************************)
(* Properties of the converter.                                             *)
(***************************************************************************)
\* collect_and_preprocess_markdown_files has returned, pandoc has not run
AfterStaging == pc \in {"title", "pandoc"}
\* pass 1 is over
IndexBuilt == pc \in {"root", "units", "title", "pandoc"} \/ (pc = "done" /\ probe = "0")

IsCurated(u) == InSeq(u, tutorial_order_curated)
IsCuratedFile(f) == InSeq(f, file_order_curated)
PositionIn(x, s) == CHOOSE i \in DOMAIN s : s[i] = x

\* the documents on disk: <<unit, file name>>, and the corpus root README
DiskDocs ==
  UNION {{<<u, unitFiles[u][i].name>> : i \in DOMAIN unitFiles[u]} : u \in Range(diskUnits)}
\* the staged path the spec gives a document of a unit, and the root README
StagedAs(d) == s_temp_dir \o <<"/">> \o d[1] \o <<"-">> \o d[2]
RootStagedAs == s_temp_dir \o <<"/">> \o s_README_md
Occurrences(x, s) == Cardinality({i \in DOMAIN s : s[i] = x})

\* C1: the staged file names are pairwise distinct across distinct source
\* documents: one staged file per discovered document, and no two documents
\* of distinct units get the same staged name.
C1_DistinctStagedNames ==
  AfterStaging =>
    /\ \A i, j \in DOMAIN processed_files : i # j => processed_files[i] # processed_files[j]
    /\ Cardinality(DOMAIN staging.files)
         = Cardinality(DiskDocs) + (IF rootReadme = Absent THEN 0 ELSE 1)
    /\ \A d1, d2 \in DiskDocs : d1[1] # d2[1] => StagedAs(d1) # StagedAs(d2)

\* the order the spec gives the units, and the files of a unit
UnitOrderOfSpec ==
  LET OnDisk(u) == Exists(u)
      Uncurated(u) == ~IsCurated(u)
  IN SelectSeq(tutorial_order_curated, OnDisk) \o SelectSeq(diskUnits, Uncurated)
FileOrderOfSpec(u) ==
  LET Here(f) == HasFile(u, f)
      Rest(f) == f # s_README_md /\ ~IsCuratedFile(f)
  IN (IF HasFile(u, s_README_md) THEN <<s_README_md>> ELSE <<>>)
     \o SelectSeq(file_order_curated, Here) \o SelectSeq(FileNamesOf(u), Rest)
StagedListOfSpec ==
  (IF rootReadme = Absent THEN <<>> ELSE <<RootStagedAs>>)
  \o Concat([k \in DOMAIN UnitOrderOfSpec |->
               [j \in DOMAIN FileOrderOfSpec(UnitOrderOfSpec[k]) |->
                  StagedAs(<<UnitOrderOfSpec[k], FileOrderOfSpec(UnitOrderOfSpec[k])[j]>>)]])

\* C2: the returned list is the root README, then unit by unit the README,
\* the curated files in curated order and the remaining files in iteration
\* order, and every discovered document appears in it exactly once.
C2_EveryDocumentOnce ==
  AfterStaging =>
    /\ processed_files = StagedListOfSpec
    /\ rootReadme # Absent => Occurrences(RootStagedAs, processed_files) = 1
    /\ \A d \in DiskDocs : Occurrences(StagedAs(d), processed_files) = 1

\* C3: the units are staged without the curated units that are not on disk,
\* the curated ones in curated order, the others after them in the order the
\* directory listing gave them; once the loop is over every unit on disk was
\* staged.
C3_UnitOrder ==
  /\ \A i \in DOMAIN visited : Exists(visited[i])
  /\ \A i, j \in DOMAIN visited :
       i < j =>
         /\ visited[i] # visited[j]
         /\ (IsCurated(visited[i]) /\ IsCurated(visited[j]))
              => PositionIn(visited[i], tutorial_order_curated)
                   < PositionIn(visited[j], tutorial_order_curated)
         /\ ~(~IsCurated(visited[i]) /\ IsCurated(visited[j]))
         /\ (~IsCurated(visited[i]) /\ ~IsCurated(visited[j]))
              => PositionIn(visited[i], diskUnits) < PositionIn(visited[j], diskUnits)
  /\ (pc \in {"title", "pandoc"} \/ (pc = "done" /\ probe = "0"))
       => Range(visited) = Range(diskUnits)

\* an uncurated unit that the directory listing gave first was staged after
\* a curated one, with the other curated units absent from disk
C3_Witness ==
  /\ pc = "title"
  /\ diskUnits = <<u_zeta, u_batching>>
  /\ visited = <<u_batching, u_zeta>>

\* the anchor the spec gives a document: from its first level-1 heading, or
\* else from its file name
AnchorOfSpec(filename, c) ==
  IF HasHeading(c) THEN create_pandoc_heading_id(HeadingTitle(c))
  ELSE create_pandoc_heading_id(SubSeq(filename, 1, Len(filename) - Len(s_dot_md)))
HasEntry(map, key, value) == key \in DOMAIN map /\ map[key] = value

\* C4, as stated: once pass 1 is over, the root README and every document of
\* every unit on disk has its entry in the Document-to-anchor map, and every
\* unit on disk has an entry in the Unit-to-anchor map.
C4_EveryDocumentIndexed ==
  IndexBuilt =>
    /\ rootReadme # Absent
         => HasEntry(file_to_anchor, RootReadmePath, AnchorOfSpec(s_README_md, rootReadme[1]))
    /\ \A d \in DiskDocs :
         HasEntry(file_to_anchor, DocPath(d[1], d[2]), AnchorOfSpec(d[2], ContentOf(d[1], d[2])))
    /\ \A u \in Range(diskUnits) : u \in DOMAIN tutorial_to_anchor

\* C4, amended: once pass 1 is over, every document of a unit other than its
\* README has its entry (heading anchor, or else file-name anchor); a unit and
\* its README have entries exactly when the README exists and has a level-1
\* heading, both the anchor of that heading; the root README has none.
C4_UnitDocumentsIndexed ==
  IndexBuilt =>
    /\ RootReadmePath \notin DOMAIN file_to_anchor
    /\ \A d \in DiskDocs :
         d[2] # s_README_md =>
           HasEntry(file_to_anchor, DocPath(d[1], d[2]), AnchorOfSpec(d[2], ContentOf(d[1], d[2])))
    /\ \A u \in Range(diskUnits) :
         IF HasFile(u, s_README_md) /\ HasHeading(ContentOf(u, s_README_md))
         THEN LET anchor == create_pandoc_heading_id(HeadingTitle(ContentOf(u, s_README_md)))
              IN /\ HasEntry(tutorial_to_anchor, u, anchor)
                 /\ HasEntry(file_to_anchor, DocPath(u, s_README_md), anchor)
         ELSE /\ u \notin DOMAIN tutorial_to_anchor
              /\ DocPath(u, s_README_md) \notin DOMAIN file_to_anchor

\* pass 1 is over for a corpus with a root README, a unit whose README has no
\* level-1 heading and a file of it that has none either
C4_Witness ==
  /\ pc = "root"
  /\ rootReadme # Absent
  /\ \E u \in Range(diskUnits) :
       /\ HasFile(u, s_README_md) /\ ~HasHeading(ContentOf(u, s_README_md))
       /\ HasFile(u, f_notes) /\ ~HasHeading(ContentOf(u, f_notes))
       /\ file_to_anchor = (DocPath(u, f_notes) :> n_notes)

\* C5: when the version probe fails or pandoc is not found, convert() returns
\* failure with no file I/O done: the staging directory is as it was, no
\* title file, nothing read or staged, pandoc not run on content.
C5_NoWorkWithoutPandoc ==
  probe \in {"nonzero", "notfound"} =>
    /\ pc = "done" /\ result = "False" /\ exit_code = 1
    /\ io = {}
    /\ staging \in {NoDir, StaleDir}
    /\ title_file = FALSE
    /\ processed_files = <<>>
    /\ cmd = <<>>

\* the probe ran and failed while an earlier run's staging directory was there
C5_Witness ==
  /\ pc = "done" /\ probe = "nonzero" /\ staging = StaleDir /\ Range(diskUnits) # {}

\* C6: after the pre-flight check the staging directory is recreated empty
\* before anything is staged and stays until pandoc has run; it is deleted
\* again exactly when pandoc returned 0 (success, exit code 0); otherwise the
\* staged files are left in place and the run fails (exit code 1).
C6_StagingLifecycle ==
  /\ pc = "index" => staging = EmptyDir
  /\ pc \in {"index", "root", "units", "title", "pandoc"}
       => staging.exists /\ DOMAIN staging.files = Range(processed_files)
  /\ (pc = "done" /\ probe = "0") =>
       IF returncode = "0"
       THEN ~staging.exists /\ result = "True" /\ exit_code = 0
       ELSE /\ staging.exists /\ DOMAIN staging.files = Range(processed_files)
            /\ result = "False" /\ exit_code = 1

\* pandoc raised over a staged corpus, in a run that had found an earlier
\* run's staging directory
C6_Witness ==
  /\ pc = "done" /\ returncode = "raised"
  /\ "rmtree" \in io
  /\ staging.exists /\ Cardinality(DOMAIN staging.files) = MaxDocs + 1


(***************************************************************************)
(* SpecCross: convert() over units whose documents link to each other.      *)
(* caching precedes batching in the curated order, so a document of         *)
(* caching links forward and a document of batching links backward.         *)
(***************************************************************************)
doc_cross_a == <<"#"," ","A","\n","(","t","u","t","o","r","i","a","l","s","/","c","a","c","h","i","n","g","/",")"," ","(","t","u","t","o","r","i","a","l","s","/","b","a","t","c","h","i","n","g","/",")">>
doc_cross_b == <<"#"," ","B","\n","(","t","u","t","o","r","i","a","l","s","/","c","a","c","h","i","n","g","/",")"," ","(","t","u","t","o","r","i","a","l","s","/","b","a","t","c","h","i","n","g","/",")">>
doc_cross_open == <<"#"," ","C","\n","t","u","t","o","r","i","a","l","s","/"," ","(","t","u","t","o","r","i","a","l","s","/","b","a","t","c","h","i","n","g","/",")"," ","(","t","u","t","o","r","i","a","l","s","/","c","a","c","h","i","n","g","/",")">>

InitCross == InitFrom({u_caching, u_batching}, {s_README_md, f_notes},
                      {doc_cross_a, doc_cross_b, doc_cross_open}, {NoDir})
SpecCross == InitCross /\ [][Next]_vars

\* a directory-style link to unit u, and the unit's anchor
DirLink(u) == s_tutorials_slash \o u \o <<"/">>
HasIndexedReadme(u) ==
  Exists(u) /\ HasFile(u, s_README_md) /\ HasHeading(ContentOf(u, s_README_md))
UnitAnchor(u) == create_pandoc_heading_id(HeadingTitle(ContentOf(u, s_README_md)))
StagedContent(d) == staging.files[StagedAs(d)]

\* pass 1 is over before any document is rewritten, and it has indexed every
\* unit whose README has a level-1 heading
IndexBeforeRewrite ==
  /\ pc \in {"check", "reset", "index"} => processed_files = <<>> /\ visited = <<>>
  /\ pc \in {"root", "units", "title", "pandoc"} =>
       \A b \in Range(diskUnits) :
         HasIndexedReadme(b) => HasEntry(tutorial_to_anchor, b, UnitAnchor(b))

\* in the staged copy of document d of unit a, the links to unit b have
\* become b's anchor
LinksResolved(a, d, b) ==
  Contains(ContentOf(a, d), DirLink(b)) =>
    /\ ~Contains(StagedContent(<<a, d>>), DirLink(b))
    /\ Contains(StagedContent(<<a, d>>), <<"#">> \o UnitAnchor(b))

\* pandoc runs on content once, on the whole staged list, after every unit
\* on disk was staged
InvokedOnceAfterStaging ==
  /\ Len(cmd) <= 1
  /\ cmd # <<>> =>
       /\ pc = "done"
       /\ cmd[1] = <<TitlePath>> \o processed_files
       /\ Range(visited) = Range(diskUnits)
       /\ \A d \in DiskDocs : StagedAs(d) \in Range(processed_files)
       /\ rootReadme # Absent => RootStagedAs \in Range(processed_files)

\* C11: the index pass over all units is over before any document is
\* rewritten; for any two units on disk whose READMEs have a level-1 heading,
\* a directory-style link to the one in a staged document of the other has
\* become its anchor, whichever of the two was staged first; and pandoc is
\* run once, only after every document was staged.
C11_CrossLinksAnyOrder ==
  /\ IndexBeforeRewrite
  /\ pc \in {"units", "title", "pandoc"} =>
       \A a \in Range(visited), b \in Range(diskUnits) :
         (a # b /\ HasIndexedReadme(a) /\ HasIndexedReadme(b)) =>
           \A i \in DOMAIN unitFiles[a] : LinksResolved(a, unitFiles[a][i].name, b)
  /\ InvokedOnceAfterStaging
====
